---- MODULE Spec2Model ----
(***************************************************************************)
(* ScoreTracker: the match scoring engine (shared/src/sports.ts) and the   *)
(* match lifecycle routes (server/src/routes/matches.ts) for one match of  *)
(* one tournament.                                                         *)
(*                                                                         *)
(* Two specifications share the variables:                                 *)
(*   Spec      every request handler runs to completion before the next    *)
(*             one starts (requests handled one at a time);                *)
(*   SpecConc  score / undo / next-period handlers are split at their      *)
(*             awaits (store read, event write, match write), so that two  *)
(*             requests on the match interleave.                           *)
(*                                                                         *)
(* Of the stored match only the columns some handler reads or writes are   *)
(* kept; id, tournamentId, groupId, stage, round, matchNumber and          *)
(* scheduledAt are never read by a handler and are left out.               *)
(* createdAt of score events is the position in the log: the store orders  *)
(* events by creation.                                                     *)
(* Requests are those that pass the admin password check and the zod body  *)
(* schema of their route and name an existing match; the 401, 404 and      *)
(* schema-400 answers of the handlers come before any use of the match.    *)
(*                                                                         *)
(* The pure functions of shared/src (the sport handlers, the bracket        *)
(* generators) have specifications of their own, which draw the arguments  *)
(* from bounded sets and keep the call in calc.                            *)
(***************************************************************************)
EXTENDS Integers, Sequences, FiniteSets, TLC

VARIABLES
    sport,      \* slug of the tournament's sport (fixed for the match)
    match,      \* the stored match row
    events,     \* the stored score events of the match, in creation order
    response,   \* the HTTP response of the request handled last
    emitted,    \* the notifications emitted by the request handled last
    reqs,       \* SpecConc: the requests in flight
    calc        \* the specifications of the pure functions: the call in progress

vars == <<sport, match, events, response, emitted, reqs, calc>>

----------------------------------------------------------------------------
\* Bounds of the model

\* largest point value a score request carries
MaxPoints == 2
\* largest number of score events in the log
MaxEvents == 2
\* wall-clock readings are drawn from 1..MaxTime
MaxTime == 2
\* number of requests of one SpecConc run
MaxReqs == 2
\* next-period is explored up to this period (a soccer match has 2 periods, a
\* basketball match 4)
MaxPeriod == 2
\* SpecRoundTrip: largest number of applyScore calls of one run
MaxCalls == 2
\* SpecRoundTrip: largest period score of the state the calls start from
MaxBucket == 1
\* SpecFormats: largest number of teams a generator is called with
MaxTeams == 8
\* the number of calls of a generator with the same arguments
MaxTrials == 2

NULL == "null"
ABSENT == "absent"
\* startedAt / endedAt of a match that has not started / ended (null in the store)
NoTime == 0

Times == 1..MaxTime
Sides == {"HOME", "AWAY"}
MatchStatus == {"SCHEDULED", "LIVE", "PAUSED", "COMPLETED", "CANCELLED"}
HomeTeam == "team-1"
AwayTeam == "team-2"

----------------------------------------------------------------------------
\* Sport rows and sport handlers

\* the sports of the model's tournaments
SportSlugs == {"soccer", "basketball"}

\* the sport rows of the store
SportRow(slug) ==
    CASE slug = "basketball" -> [slug |-> slug, periods |-> 4, scoreIncrements |-> {1, 2, 3}]
      [] slug = "volleyball" -> [slug |-> slug, periods |-> 5, scoreIncrements |-> {1}]
      [] slug = "soccer"     -> [slug |-> slug, periods |-> 2, scoreIncrements |-> {1}]
      [] slug = "badminton"  -> [slug |-> slug, periods |-> 3, scoreIncrements |-> {1}]

\* the config of the handler getSportHandler returns for a sport row
getSportHandler(row) ==
    CASE row.slug = "basketball" -> [periods |-> 4, scoreIncrements |-> {1, 2, 3}]
      [] row.slug = "volleyball" -> [periods |-> 5, scoreIncrements |-> {1}]
      [] row.slug = "soccer"     -> [periods |-> 2, scoreIncrements |-> {1}]
      [] OTHER -> [periods |-> row.periods, scoreIncrements |-> row.scoreIncrements]

Max(a, b) == IF a > b THEN a ELSE b

\* the MatchState a handler builds from the match it read
MatchState(m) ==
    [homeScore |-> m.homeScore, awayScore |-> m.awayScore,
     homePeriodScores |-> m.homePeriodScores,
     awayPeriodScores |-> m.awayPeriodScores,
     currentPeriod |-> m.currentPeriod, status |-> m.status]

\* a validateAction without the status check
validateAction_NoLiveCheck(config, state, points) ==
    IF points \notin config.scoreIncrements
    THEN [valid |-> FALSE, message |-> "Invalid point value"]
    ELSE [valid |-> TRUE, message |-> NULL]

validateAction(config, state, points) ==
    IF state.status # "LIVE"
    THEN [valid |-> FALSE, message |-> "Match is not live"]
    ELSE IF points \notin config.scoreIncrements
    THEN [valid |-> FALSE, message |-> "Invalid point value"]
    ELSE [valid |-> TRUE, message |-> NULL]

\* the while loops of applyScore: extend arr with zeros while its length <= periodIndex
RECURSIVE ExtendTo(_, _)
ExtendTo(arr, periodIndex) ==
    IF Len(arr) <= periodIndex THEN ExtendTo(Append(arr, 0), periodIndex) ELSE arr

\* an applyScore that adds to the total and forgets the period bucket
applyScore_NoBucket(config, state, teamSide, points) ==
    LET validation == validateAction(config, state, points)
        periodIndex == state.currentPeriod - 1
    IN  IF ~validation.valid
        THEN [valid |-> FALSE, newState |-> state, message |-> validation.message]
        ELSE [valid |-> TRUE, message |-> NULL,
              newState |-> [state EXCEPT
                  !.homeScore = IF teamSide = "HOME" THEN @ + points ELSE @,
                  !.awayScore = IF teamSide = "AWAY" THEN @ + points ELSE @,
                  !.homePeriodScores = ExtendTo(@, periodIndex),
                  !.awayPeriodScores = ExtendTo(@, periodIndex)]]

\* arrays are 0-based in the source and 1-based here: index i is position i + 1
applyScore(config, state, teamSide, points) ==
    LET validation == validateAction(config, state, points)
        periodIndex == state.currentPeriod - 1
        home == ExtendTo(state.homePeriodScores, periodIndex)
        away == ExtendTo(state.awayPeriodScores, periodIndex)
    IN  IF ~validation.valid
        THEN [valid |-> FALSE, newState |-> state, message |-> validation.message]
        ELSE IF teamSide = "HOME"
        THEN [valid |-> TRUE, message |-> NULL,
              newState |-> [state EXCEPT
                  !.homeScore = @ + points,
                  !.homePeriodScores =
                      IF periodIndex + 1 \in DOMAIN home
                      THEN [home EXCEPT ![periodIndex + 1] = @ + points] ELSE home,
                  !.awayPeriodScores = away]]
        ELSE [valid |-> TRUE, message |-> NULL,
              newState |-> [state EXCEPT
                  !.awayScore = @ + points,
                  !.awayPeriodScores =
                      IF periodIndex + 1 \in DOMAIN away
                      THEN [away EXCEPT ![periodIndex + 1] = @ + points] ELSE away,
                  !.homePeriodScores = home]]

\* an undoScore that corrects the period bucket and forgets the total
undoScore_BucketOnly(state, teamSide, points, period) ==
    LET periodIndex == period - 1
    IN  IF teamSide = "HOME"
        THEN [state EXCEPT
                 !.homePeriodScores =
                     IF periodIndex + 1 \in DOMAIN @
                     THEN [@ EXCEPT ![periodIndex + 1] = Max(0, @ - points)] ELSE @]
        ELSE [state EXCEPT
                 !.awayPeriodScores =
                     IF periodIndex + 1 \in DOMAIN @
                     THEN [@ EXCEPT ![periodIndex + 1] = Max(0, @ - points)] ELSE @]

\* an undoScore that subtracts without the clamp at zero
undoScore_NoClamp(state, teamSide, points, period) ==
    LET periodIndex == period - 1
    IN  IF teamSide = "HOME"
        THEN [state EXCEPT
                 !.homeScore = @ - points,
                 !.homePeriodScores =
                     IF periodIndex + 1 \in DOMAIN @
                     THEN [@ EXCEPT ![periodIndex + 1] = @ - points] ELSE @]
        ELSE [state EXCEPT
                 !.awayScore = @ - points,
                 !.awayPeriodScores =
                     IF periodIndex + 1 \in DOMAIN @
                     THEN [@ EXCEPT ![periodIndex + 1] = @ - points] ELSE @]

undoScore(state, teamSide, points, period) ==
    LET periodIndex == period - 1
    IN  IF teamSide = "HOME"
        THEN [state EXCEPT
                 !.homeScore = Max(0, @ - points),
                 !.homePeriodScores =
                     IF periodIndex + 1 \in DOMAIN @
                     THEN [@ EXCEPT ![periodIndex + 1] = Max(0, @ - points)] ELSE @]
        ELSE [state EXCEPT
                 !.awayScore = Max(0, @ - points),
                 !.awayPeriodScores =
                     IF periodIndex + 1 \in DOMAIN @
                     THEN [@ EXCEPT ![periodIndex + 1] = Max(0, @ - points)] ELSE @]

\* a nextPeriod without the check of the last period
nextPeriod_NoLimit(config, state) ==
    [state EXCEPT !.currentPeriod = @ + 1,
                  !.homePeriodScores = Append(@, 0),
                  !.awayPeriodScores = Append(@, 0)]

nextPeriod(config, state) ==
    IF state.currentPeriod >= config.periods THEN state
    ELSE [state EXCEPT !.currentPeriod = @ + 1,
                       !.homePeriodScores = Append(@, 0),
                       !.awayPeriodScores = Append(@, 0)]

----------------------------------------------------------------------------
\* The store and the responses

\* a match as the store creates it
NewMatch ==
    [homeTeamId |-> HomeTeam, awayTeamId |-> AwayTeam, winnerId |-> NULL,
     homeScore |-> 0, awayScore |-> 0,
     homePeriodScores |-> <<>>, awayPeriodScores |-> <<>>,
     currentPeriod |-> 1, status |-> "SCHEDULED",
     startedAt |-> NoTime, endedAt |-> NoTime]

NoResponse == [status |-> 0, error |-> NULL]
Ok == [status |-> 200, error |-> NULL]
Error(code, msg) == [status |-> code, error |-> msg]

\* a handler that answers with an error: nothing stored, nothing emitted
Reject(resp) ==
    /\ response' = resp
    /\ emitted' = <<>>
    /\ UNCHANGED <<calc, sport, match, events, reqs>>

\* the query ordered by createdAt ascending
LastEventIndex_Oldest(evs) ==
    LET live == {i \in DOMAIN evs : ~evs[i].undone}
    IN  IF live = {} THEN 0 ELSE CHOOSE i \in live : \A j \in live : j >= i

\* scoreEvents: { where: { undone: false }, orderBy: { createdAt: 'desc' }, take: 1 }
LastEventIndex(evs) ==
    LET live == {i \in DOMAIN evs : ~evs[i].undone}
    IN  IF live = {} THEN 0 ELSE CHOOSE i \in live : \A j \in live : j <= i

----------------------------------------------------------------------------
\* The handlers, each run to completion

\* PUT /:matchId with body data (ABSENT: the key is not in the body). The bodies
\* of the model carry the status key only: of the keys of UpdateMatchSchema it is
\* the one a match handler reads back.
UpdateMatchBodies == [status : MatchStatus \cup {ABSENT}]

\* an update that clears the winner when it writes a status
ApplyUpdate_ClearsWinner(m, body) ==
    [m EXCEPT !.status = IF body.status = ABSENT THEN @ ELSE body.status,
              !.winnerId = IF body.status = ABSENT THEN @ ELSE NULL]

ApplyUpdate(m, body) ==
    [m EXCEPT !.status = IF body.status = ABSENT THEN @ ELSE body.status]

PutMatch ==
    \E body \in UpdateMatchBodies :
        /\ match' = ApplyUpdate(match, body)
        /\ response' = Ok
        /\ emitted' = <<>>
        /\ UNCHANGED <<calc, sport, events, reqs>>

\* a start handler that refuses a COMPLETED match only
StartMatch_CompletedOnly ==
    \E now \in Times :
        IF match.status = "COMPLETED"
        THEN Reject(Error(400, "Match cannot be started"))
        ELSE /\ match' = [match EXCEPT
                    !.status = "LIVE",
                    !.startedAt = IF @ # NoTime THEN @ ELSE now]
             /\ response' = Ok
             /\ emitted' = << [event |-> "match_started", room |-> "match",
                               startedAt |-> now] >>
             /\ UNCHANGED <<calc, sport, events, reqs>>

\* a start handler that stamps startedAt on every start
StartMatch_AlwaysStamps ==
    \E now \in Times :
        IF match.status # "SCHEDULED" /\ match.status # "PAUSED"
        THEN Reject(Error(400, "Match cannot be started"))
        ELSE /\ match' = [match EXCEPT !.status = "LIVE", !.startedAt = now]
             /\ response' = Ok
             /\ emitted' = << [event |-> "match_started", room |-> "match",
                               startedAt |-> now] >>
             /\ UNCHANGED <<calc, sport, events, reqs>>

StartMatch ==
    \E now \in Times :
        IF match.status # "SCHEDULED" /\ match.status # "PAUSED"
        THEN Reject(Error(400, "Match cannot be started"))
        ELSE /\ match' = [match EXCEPT
                    !.status = "LIVE",
                    !.startedAt = IF @ # NoTime THEN @ ELSE now]
             /\ response' = Ok
             /\ emitted' = << [event |-> "match_started", room |-> "match",
                               startedAt |-> now] >>
             /\ UNCHANGED <<calc, sport, events, reqs>>

\* a pause handler without its status check
PauseMatch_NoCheck ==
    /\ match' = [match EXCEPT !.status = "PAUSED"]
    /\ response' = Ok
    /\ emitted' = << [event |-> "match_paused", room |-> "match",
                      status |-> "PAUSED"] >>
    /\ UNCHANGED <<calc, sport, events, reqs>>

PauseMatch ==
        IF match.status # "LIVE"
        THEN Reject(Error(400, "Match is not live"))
        ELSE /\ match' = [match EXCEPT !.status = "PAUSED"]
             /\ response' = Ok
             /\ emitted' = << [event |-> "match_paused", room |-> "match",
                               status |-> "PAUSED"] >>
             /\ UNCHANGED <<calc, sport, events, reqs>>

\* a winner rule that gives a tie to the home side
DetermineWinner_TieToHome(m) ==
    IF m.homeScore >= m.awayScore THEN m.homeTeamId ELSE m.awayTeamId

\* "Determine winner" of the end handler
DetermineWinner(m) ==
    IF m.homeScore > m.awayScore THEN m.homeTeamId
    ELSE IF m.awayScore > m.homeScore THEN m.awayTeamId
    ELSE NULL

EndMatch ==
    \E now \in Times :
             LET winnerId == DetermineWinner(match)
             IN  /\ match' = [match EXCEPT
                        !.status = "COMPLETED",
                        !.winnerId = winnerId,
                        !.endedAt = now]
                 /\ response' = Ok
                 /\ emitted' = << [event |-> "match_ended", room |-> "match",
                                   winnerId |-> winnerId,
                                   homeScore |-> match.homeScore,
                                   awayScore |-> match.awayScore,
                                   endedAt |-> now] >>
                 /\ UNCHANGED <<calc, sport, events, reqs>>

NewEvent(evs, teamSide, points, period) ==
    [id |-> Len(evs) + 1, teamSide |-> teamSide, points |-> points,
     period |-> period, undone |-> FALSE]

ScoreData(m, newState) ==
    [m EXCEPT
        !.homeScore = newState.homeScore,
        !.awayScore = newState.awayScore,
        !.homePeriodScores = newState.homePeriodScores,
        !.awayPeriodScores = newState.awayPeriodScores]

AddScoreReq(teamSide, points) ==
             LET handler == getSportHandler(SportRow(sport))
                 result == applyScore(handler, MatchState(match), teamSide, points)
                 scoreEvent == NewEvent(events, teamSide, points, match.currentPeriod)
             IN  IF ~result.valid THEN Reject(Error(400, result.message))
                 ELSE /\ Len(events) < MaxEvents
                      /\ events' = Append(events, scoreEvent)
                      /\ match' = ScoreData(match, result.newState)
                      /\ response' = Ok
                      /\ emitted' = << [event |-> "score_event", room |-> "match",
                                        scoreEvent |-> scoreEvent,
                                        homeScore |-> match'.homeScore,
                                        awayScore |-> match'.awayScore,
                                        homePeriodScores |-> match'.homePeriodScores,
                                        awayPeriodScores |-> match'.awayPeriodScores] >>
                      /\ UNCHANGED <<calc, sport, reqs>>

AddScore == \E teamSide \in Sides, points \in 1..MaxPoints : AddScoreReq(teamSide, points)

MatchUpdatePayload(m) ==
    [event |-> "match_update", room |-> "match",
     homeScore |-> m.homeScore, awayScore |-> m.awayScore,
     homePeriodScores |-> m.homePeriodScores,
     awayPeriodScores |-> m.awayPeriodScores,
     currentPeriod |-> m.currentPeriod, status |-> m.status]

UndoScore ==
             LET last == LastEventIndex(events)
             IN  IF last = 0 THEN Reject(Error(400, "No score events to undo"))
                 ELSE LET lastEvent == events[last]
                          newState == undoScore(MatchState(match), lastEvent.teamSide,
                                                lastEvent.points, lastEvent.period)
                      IN  /\ events' = [events EXCEPT ![last].undone = TRUE]
                          /\ match' = ScoreData(match, newState)
                          /\ response' = Ok
                          /\ emitted' = << MatchUpdatePayload(match') >>
                          /\ UNCHANGED <<calc, sport, reqs>>

\* a next-period handler that advances the period and leaves the arrays
NextPeriod_KeepsArrays ==
        IF match.currentPeriod >= SportRow(sport).periods
        THEN Reject(Error(400, "Already at final period"))
        ELSE LET newPeriod == match.currentPeriod + 1
             IN  /\ match.currentPeriod < MaxPeriod
                 /\ match' = [match EXCEPT !.currentPeriod = newPeriod]
                 /\ response' = Ok
                 /\ emitted' = << [event |-> "period_changed", room |-> "match",
                                   currentPeriod |-> newPeriod,
                                   homePeriodScores |-> match.homePeriodScores,
                                   awayPeriodScores |-> match.awayPeriodScores] >>
                 /\ UNCHANGED <<calc, sport, events, reqs>>

NextPeriod ==
        IF match.currentPeriod >= SportRow(sport).periods
        THEN Reject(Error(400, "Already at final period"))
        ELSE LET newPeriod == match.currentPeriod + 1
                 homePeriodScores == Append(match.homePeriodScores, 0)
                 awayPeriodScores == Append(match.awayPeriodScores, 0)
             IN  /\ match.currentPeriod < MaxPeriod
                 /\ match' = [match EXCEPT
                        !.currentPeriod = newPeriod,
                        !.homePeriodScores = homePeriodScores,
                        !.awayPeriodScores = awayPeriodScores]
                 /\ response' = Ok
                 /\ emitted' = << [event |-> "period_changed", room |-> "match",
                                   currentPeriod |-> newPeriod,
                                   homePeriodScores |-> homePeriodScores,
                                   awayPeriodScores |-> awayPeriodScores] >>
                 /\ UNCHANGED <<calc, sport, events, reqs>>

\* DELETE /:matchId: the router declares no delete route, so the request falls
\* through to the application's 404 handler
DeleteMatch == Reject(Error(404, "Not found"))

----------------------------------------------------------------------------
\* Requests handled one at a time

Reqs == 1..MaxReqs

\* no pure-function call in progress
NoCalc == [fn |-> "none"]

\* a request slot; snap is the match as findUnique returned it, last the id of
\* the event the handler created or read, teamSide / points / period those of
\* that event, updated the row match.update returned, now the reading of the
\* clock the handler took (start and end).
\* before and wseq record the order of the store accesses: the requests that
\* had written the match when this one read it, and the rank of its own write.
Idle ==
    [pc |-> "idle", op |-> "none", teamSide |-> "HOME", points |-> 0, period |-> 1,
     snap |-> NewMatch, last |-> 0, updated |-> NewMatch,
     before |-> {}, wseq |-> 0, now |-> NoTime]

Init ==
    /\ sport \in SportSlugs
    /\ match = NewMatch
    /\ events = <<>>
    /\ response = NoResponse
    /\ emitted = <<>>
    /\ reqs = [r \in Reqs |-> Idle]
    /\ calc = NoCalc

Next ==
    \/ PutMatch
    \/ StartMatch
    \/ PauseMatch
    \/ EndMatch
    \/ AddScore
    \/ UndoScore
    \/ NextPeriod
    \/ DeleteMatch

Spec == Init /\ [][Next]_vars

----------------------------------------------------------------------------
\* Requests that interleave at their awaits.  A handler is a chain of store
\* accesses (findUnique, scoreEvent.create / update, match.update) followed by
\* the broadcast; each access is one step, and the computation between two
\* accesses uses only what the handler read.

Written(r) == reqs[r].wseq > 0
Writers == {r \in Reqs : Written(r)}
NextWseq == Cardinality(Writers) + 1
\* score requests that have read the match and not yet created their event
PendingCreates == Cardinality({r \in Reqs : reqs[r].pc = "create"})

\* requests arrive in slot order; the handlers run to completion come first
CanArrive(r) ==
    /\ reqs[r].pc = "idle"
    /\ IF r = 1 THEN TRUE ELSE reqs[r - 1].pc # "idle"
NoneArrived == \A r \in Reqs : reqs[r].pc = "idle"

Arrive(r, op, teamSide, points) ==
    [reqs[r] EXCEPT !.op = op, !.teamSide = teamSide, !.points = points,
                    !.period = match.currentPeriod,
                    !.snap = match, !.last = LastEventIndex(events),
                    !.before = Writers]

\* POST /:matchId/score up to the applyScore check
ScoreRead(r) ==
    \E teamSide \in Sides, points \in 1..MaxPoints :
        LET req == Arrive(r, "score", teamSide, points)
            result == applyScore(getSportHandler(SportRow(sport)),
                                 MatchState(match), teamSide, points)
        IN  /\ CanArrive(r)
            /\ Len(events) + PendingCreates < MaxEvents
            /\ IF ~result.valid
               THEN /\ reqs' = [reqs EXCEPT ![r] = [req EXCEPT !.pc = "done"]]
                    /\ response' = Error(400, result.message)
                    /\ emitted' = <<>>
               ELSE /\ reqs' = [reqs EXCEPT ![r] = [req EXCEPT !.pc = "create"]]
                    /\ UNCHANGED <<response, emitted>>
            /\ UNCHANGED <<calc, sport, match, events>>

\* a score handler that broadcasts once its event is created, before the match
\* is written
ScoreCreate_EmitsEarly(r) ==
    /\ reqs[r].pc = "create"
    /\ events' = Append(events, NewEvent(events, reqs[r].teamSide, reqs[r].points,
                                         reqs[r].period))
    /\ reqs' = [reqs EXCEPT ![r].pc = "update", ![r].last = Len(events) + 1]
    /\ emitted' = << [event |-> "score_event", room |-> "match",
                      scoreEvent |-> events'[Len(events')],
                      homeScore |-> match.homeScore,
                      awayScore |-> match.awayScore,
                      homePeriodScores |-> match.homePeriodScores,
                      awayPeriodScores |-> match.awayPeriodScores] >>
    /\ UNCHANGED <<calc, sport, match, response>>

\* prisma.scoreEvent.create
ScoreCreate(r) ==
    /\ reqs[r].pc = "create"
    /\ events' = Append(events, NewEvent(events, reqs[r].teamSide, reqs[r].points,
                                         reqs[r].period))
    /\ reqs' = [reqs EXCEPT ![r].pc = "update", ![r].last = Len(events) + 1]
    /\ UNCHANGED <<calc, sport, match, response, emitted>>

\* the state the handler computed from what it read
Computed(req) ==
    IF req.op = "score"
    THEN applyScore(getSportHandler(SportRow(sport)), MatchState(req.snap),
                    req.teamSide, req.points).newState
    ELSE undoScore(MatchState(req.snap), req.teamSide, req.points, req.period)

\* a match.update that applies the request to the row as it is at the write
WriteScores_OnCurrentRow(r) ==
    /\ reqs[r].pc = "update"
    /\ reqs[r].op \in {"score", "undo"}
    /\ match' = ScoreData(match, Computed([reqs[r] EXCEPT !.snap = match]))
    /\ reqs' = [reqs EXCEPT ![r].pc = "emit", ![r].updated = match',
                            ![r].wseq = NextWseq]
    /\ UNCHANGED <<calc, sport, events, response, emitted>>

\* prisma.match.update of the score and of the undo handler
WriteScores(r) ==
    /\ reqs[r].pc = "update"
    /\ reqs[r].op \in {"score", "undo"}
    /\ match' = ScoreData(match, Computed(reqs[r]))
    /\ reqs' = [reqs EXCEPT ![r].pc = "emit", ![r].updated = match',
                            ![r].wseq = NextWseq]
    /\ UNCHANGED <<calc, sport, events, response, emitted>>

\* broadcastScoreEvent and the response
ScoreEmit(r) ==
    /\ reqs[r].pc = "emit"
    /\ reqs[r].op = "score"
    /\ emitted' = << [event |-> "score_event", room |-> "match",
                      scoreEvent |-> [id |-> reqs[r].last,
                                      teamSide |-> reqs[r].teamSide,
                                      points |-> reqs[r].points,
                                      period |-> reqs[r].period, undone |-> FALSE],
                      homeScore |-> reqs[r].updated.homeScore,
                      awayScore |-> reqs[r].updated.awayScore,
                      homePeriodScores |-> reqs[r].updated.homePeriodScores,
                      awayPeriodScores |-> reqs[r].updated.awayPeriodScores] >>
    /\ response' = Ok
    /\ reqs' = [reqs EXCEPT ![r].pc = "done"]
    /\ UNCHANGED <<calc, sport, match, events>>

\* POST /:matchId/undo up to the lastEvent check
UndoRead(r) ==
    LET last == LastEventIndex(events)
        req == Arrive(r, "undo", "HOME", 0)
    IN  /\ CanArrive(r)
        /\ IF last = 0
           THEN /\ reqs' = [reqs EXCEPT ![r] = [req EXCEPT !.pc = "done"]]
                /\ response' = Error(400, "No score events to undo")
                /\ emitted' = <<>>
           ELSE /\ reqs' = [reqs EXCEPT ![r] =
                                [req EXCEPT !.pc = "mark",
                                            !.teamSide = events[last].teamSide,
                                            !.points = events[last].points,
                                            !.period = events[last].period]]
                /\ UNCHANGED <<response, emitted>>
        /\ UNCHANGED <<calc, sport, match, events>>

\* prisma.scoreEvent.update({ data: { undone: true } })
UndoMark(r) ==
    /\ reqs[r].pc = "mark"
    /\ events' = [events EXCEPT ![reqs[r].last].undone = TRUE]
    /\ reqs' = [reqs EXCEPT ![r].pc = "update"]
    /\ UNCHANGED <<calc, sport, match, response, emitted>>

\* broadcastMatchUpdate and the response
UndoEmit(r) ==
    /\ reqs[r].pc = "emit"
    /\ reqs[r].op = "undo"
    /\ emitted' = << MatchUpdatePayload(reqs[r].updated) >>
    /\ response' = Ok
    /\ reqs' = [reqs EXCEPT ![r].pc = "done"]
    /\ UNCHANGED <<calc, sport, match, events>>

\* POST /:matchId/next-period up to the final-period check
PeriodRead(r) ==
    LET req == Arrive(r, "next", "HOME", 0)
    IN  /\ CanArrive(r)
        /\ IF match.currentPeriod >= SportRow(sport).periods
           THEN /\ reqs' = [reqs EXCEPT ![r] = [req EXCEPT !.pc = "done"]]
                /\ response' = Error(400, "Already at final period")
                /\ emitted' = <<>>
           ELSE /\ match.currentPeriod < MaxPeriod
                /\ reqs' = [reqs EXCEPT ![r] = [req EXCEPT !.pc = "update"]]
                /\ UNCHANGED <<response, emitted>>
        /\ UNCHANGED <<calc, sport, match, events>>

\* a next-period write that starts every period score again at 0
PeriodWrite_ClearsBuckets(r) ==
    /\ reqs[r].pc = "update"
    /\ reqs[r].op = "next"
    /\ match' = [match EXCEPT
           !.currentPeriod = reqs[r].snap.currentPeriod + 1,
           !.homePeriodScores = [i \in 1..(Len(reqs[r].snap.homePeriodScores) + 1) |-> 0],
           !.awayPeriodScores = [i \in 1..(Len(reqs[r].snap.awayPeriodScores) + 1) |-> 0]]
    /\ reqs' = [reqs EXCEPT ![r].pc = "emit", ![r].updated = match',
                            ![r].wseq = NextWseq]
    /\ UNCHANGED <<calc, sport, events, response, emitted>>

\* prisma.match.update of the next-period handler
PeriodWrite(r) ==
    /\ reqs[r].pc = "update"
    /\ reqs[r].op = "next"
    /\ match' = [match EXCEPT
           !.currentPeriod = reqs[r].snap.currentPeriod + 1,
           !.homePeriodScores = Append(reqs[r].snap.homePeriodScores, 0),
           !.awayPeriodScores = Append(reqs[r].snap.awayPeriodScores, 0)]
    /\ reqs' = [reqs EXCEPT ![r].pc = "emit", ![r].updated = match',
                            ![r].wseq = NextWseq]
    /\ UNCHANGED <<calc, sport, events, response, emitted>>

\* broadcastPeriodChanged and the response
PeriodEmit(r) ==
    /\ reqs[r].pc = "emit"
    /\ reqs[r].op = "next"
    /\ emitted' = << [event |-> "period_changed", room |-> "match",
                      currentPeriod |-> reqs[r].snap.currentPeriod + 1,
                      homePeriodScores |-> Append(reqs[r].snap.homePeriodScores, 0),
                      awayPeriodScores |-> Append(reqs[r].snap.awayPeriodScores, 0)] >>
    /\ response' = Ok
    /\ reqs' = [reqs EXCEPT ![r].pc = "done"]
    /\ UNCHANGED <<calc, sport, match, events>>

\* POST /:matchId/start up to the status check
StartRead(r) ==
    LET req == Arrive(r, "start", "HOME", 0)
    IN  /\ CanArrive(r)
        /\ IF match.status # "SCHEDULED" /\ match.status # "PAUSED"
           THEN /\ reqs' = [reqs EXCEPT ![r] = [req EXCEPT !.pc = "done"]]
                /\ response' = Error(400, "Match cannot be started")
                /\ emitted' = <<>>
           ELSE /\ reqs' = [reqs EXCEPT ![r] = [req EXCEPT !.pc = "update"]]
                /\ UNCHANGED <<response, emitted>>
        /\ UNCHANGED <<calc, sport, match, events>>

\* new Date() and prisma.match.update of the start handler
StartWrite(r) ==
    \E now \in Times :
        /\ reqs[r].pc = "update"
        /\ reqs[r].op = "start"
        /\ match' = [match EXCEPT
               !.status = "LIVE",
               !.startedAt = IF reqs[r].snap.startedAt # NoTime
                             THEN reqs[r].snap.startedAt ELSE now]
        /\ reqs' = [reqs EXCEPT ![r].pc = "emit", ![r].updated = match',
                                ![r].wseq = NextWseq, ![r].now = now]
        /\ UNCHANGED <<calc, sport, events, response, emitted>>

\* broadcastMatchStarted and the response
StartEmit(r) ==
    /\ reqs[r].pc = "emit"
    /\ reqs[r].op = "start"
    /\ emitted' = << [event |-> "match_started", room |-> "match",
                      startedAt |-> reqs[r].now] >>
    /\ response' = Ok
    /\ reqs' = [reqs EXCEPT ![r].pc = "done"]
    /\ UNCHANGED <<calc, sport, match, events>>

\* POST /:matchId/pause up to the status check
PauseRead(r) ==
    LET req == Arrive(r, "pause", "HOME", 0)
    IN  /\ CanArrive(r)
        /\ IF match.status # "LIVE"
           THEN /\ reqs' = [reqs EXCEPT ![r] = [req EXCEPT !.pc = "done"]]
                /\ response' = Error(400, "Match is not live")
                /\ emitted' = <<>>
           ELSE /\ reqs' = [reqs EXCEPT ![r] = [req EXCEPT !.pc = "update"]]
                /\ UNCHANGED <<response, emitted>>
        /\ UNCHANGED <<calc, sport, match, events>>

\* prisma.match.update of the pause handler
PauseWrite(r) ==
    /\ reqs[r].pc = "update"
    /\ reqs[r].op = "pause"
    /\ match' = [match EXCEPT !.status = "PAUSED"]
    /\ reqs' = [reqs EXCEPT ![r].pc = "emit", ![r].updated = match',
                            ![r].wseq = NextWseq]
    /\ UNCHANGED <<calc, sport, events, response, emitted>>

\* broadcastMatchPaused and the response
PauseEmit(r) ==
    /\ reqs[r].pc = "emit"
    /\ reqs[r].op = "pause"
    /\ emitted' = << [event |-> "match_paused", room |-> "match",
                      status |-> "PAUSED"] >>
    /\ response' = Ok
    /\ reqs' = [reqs EXCEPT ![r].pc = "done"]
    /\ UNCHANGED <<calc, sport, match, events>>

\* POST /:matchId/end: the read of the match (the handler has no status check)
EndRead(r) ==
    LET req == Arrive(r, "end", "HOME", 0)
    IN  /\ CanArrive(r)
        /\ reqs' = [reqs EXCEPT ![r] = [req EXCEPT !.pc = "update"]]
        /\ UNCHANGED <<calc, sport, match, events, response, emitted>>

\* new Date() and prisma.match.update of the end handler
EndWrite(r) ==
    \E now \in Times :
        /\ reqs[r].pc = "update"
        /\ reqs[r].op = "end"
        /\ match' = [match EXCEPT
               !.status = "COMPLETED",
               !.winnerId = DetermineWinner(reqs[r].snap),
               !.endedAt = now]
        /\ reqs' = [reqs EXCEPT ![r].pc = "emit", ![r].updated = match',
                                ![r].wseq = NextWseq, ![r].now = now]
        /\ UNCHANGED <<calc, sport, events, response, emitted>>

\* broadcastMatchEnded and the response
EndEmit(r) ==
    /\ reqs[r].pc = "emit"
    /\ reqs[r].op = "end"
    /\ emitted' = << [event |-> "match_ended", room |-> "match",
                      winnerId |-> DetermineWinner(reqs[r].snap),
                      homeScore |-> reqs[r].snap.homeScore,
                      awayScore |-> reqs[r].snap.awayScore,
                      endedAt |-> reqs[r].now] >>
    /\ response' = Ok
    /\ reqs' = [reqs EXCEPT ![r].pc = "done"]
    /\ UNCHANGED <<calc, sport, match, events>>

\* handlers run to completion before the first interleaved request arrives
Sequential ==
    /\ NoneArrived
    /\ StartMatch \/ AddScore \/ NextPeriod

NextConc ==
    \/ Sequential
    \/ \E r \in Reqs : ScoreRead(r)
    \/ \E r \in Reqs : ScoreCreate(r)
    \/ \E r \in Reqs : WriteScores(r)
    \/ \E r \in Reqs : ScoreEmit(r)
    \/ \E r \in Reqs : UndoRead(r)
    \/ \E r \in Reqs : UndoMark(r)
    \/ \E r \in Reqs : UndoEmit(r)
    \/ \E r \in Reqs : PeriodRead(r)
    \/ \E r \in Reqs : PeriodWrite(r)
    \/ \E r \in Reqs : PeriodEmit(r)
    \/ \E r \in Reqs : StartRead(r)
    \/ \E r \in Reqs : StartWrite(r)
    \/ \E r \in Reqs : StartEmit(r)
    \/ \E r \in Reqs : PauseRead(r)
    \/ \E r \in Reqs : PauseWrite(r)
    \/ \E r \in Reqs : PauseEmit(r)
    \/ \E r \in Reqs : EndRead(r)
    \/ \E r \in Reqs : EndWrite(r)
    \/ \E r \in Reqs : EndEmit(r)

SpecConc == Init /\ [][NextConc]_vars

TypeOK ==
    /\ match.status \in MatchStatus
    /\ match.currentPeriod >= 1
    /\ Len(events) <= MaxEvents

----------------------------------------------------------------------------
\* applyScore calls followed by undoScore calls in reverse order

\* the sequences over S of length n
RECURSIVE SeqsOfLen(_, _)
SeqsOfLen(S, n) ==
    IF n = 0 THEN {<<>>}
    ELSE {Append(q, x) : q \in SeqsOfLen(S, n - 1), x \in S}

RECURSIVE SumSeq(_)
SumSeq(q) == IF q = <<>> THEN 0 ELSE q[1] + SumSeq(Tail(q))

\* the states of a LIVE match the calls start from: the period arrays are as
\* long as currentPeriod or, when no score of the current period was applied
\* yet, one shorter (a new match has empty arrays in period 1)
RoundTripStates ==
    {[homeScore |-> SumSeq(h), awayScore |-> SumSeq(a),
      homePeriodScores |-> h, awayPeriodScores |-> a,
      currentPeriod |-> p, status |-> "LIVE"] :
        p \in 1..MaxPeriod,
        h \in UNION {SeqsOfLen(0..MaxBucket, l) : l \in 0..MaxPeriod},
        a \in UNION {SeqsOfLen(0..MaxBucket, l) : l \in 0..MaxPeriod}}

InitRoundTrip ==
    /\ sport \in SportSlugs
    /\ match = NewMatch
    /\ events = <<>>
    /\ response = NoResponse
    /\ emitted = <<>>
    /\ reqs = [r \in Reqs |-> Idle]
    /\ \E s \in RoundTripStates :
           /\ Len(s.homePeriodScores) = Len(s.awayPeriodScores)
           /\ Len(s.homePeriodScores) \in {s.currentPeriod - 1, s.currentPeriod}
           /\ calc = [fn |-> "applyScore", initial |-> s, state |-> s,
                      applied |-> <<>>, calls |-> 0]

\* one applyScore call that succeeds
ApplyCall ==
    \E teamSide \in Sides, points \in 1..MaxPoints :
        LET result == applyScore(getSportHandler(SportRow(sport)), calc.state,
                                 teamSide, points)
        IN  /\ calc.fn = "applyScore"
            /\ Len(calc.applied) < MaxCalls
            /\ result.valid
            /\ calc' = [calc EXCEPT
                   !.state = result.newState,
                   !.applied = Append(@, [teamSide |-> teamSide, points |-> points,
                                          period |-> calc.state.currentPeriod]),
                   !.calls = @ + 1]
            /\ UNCHANGED <<sport, match, events, response, emitted, reqs>>

\* one undoScore call with the arguments of the last applyScore call not yet
\* undone
UndoCall ==
    /\ calc.fn \in {"applyScore", "undoScore"}
    /\ calc.applied # <<>>
    /\ LET last == calc.applied[Len(calc.applied)]
       IN  calc' = [calc EXCEPT
               !.fn = "undoScore",
               !.state = undoScore(@, last.teamSide, last.points, last.period),
               !.applied = SubSeq(@, 1, Len(@) - 1)]
    /\ UNCHANGED <<sport, match, events, response, emitted, reqs>>

NextRoundTrip == ApplyCall \/ UndoCall

SpecRoundTrip == InitRoundTrip /\ [][NextRoundTrip]_vars

----------------------------------------------------------------------------
\* The volleyball handler's shouldEndPeriod and shouldEndMatch

\* arr[i] ?? 0, for the 0-based index i
At(arr, i) == IF i + 1 \in DOMAIN arr THEN arr[i + 1] ELSE 0

\* a shouldEndPeriod with the target of the other sets in the fifth
shouldEndPeriod_NoShortSet(state) ==
    LET periodIndex == state.currentPeriod - 1
        homeSetScore == At(state.homePeriodScores, periodIndex)
        awaySetScore == At(state.awayPeriodScores, periodIndex)
        pointsToWin == 25
        minDiff == 2
        homeWins == homeSetScore >= pointsToWin /\ homeSetScore - awaySetScore >= minDiff
        awayWins == awaySetScore >= pointsToWin /\ awaySetScore - homeSetScore >= minDiff
    IN  homeWins \/ awayWins

shouldEndPeriod(state) ==
    LET periodIndex == state.currentPeriod - 1
        homeSetScore == At(state.homePeriodScores, periodIndex)
        awaySetScore == At(state.awayPeriodScores, periodIndex)
        pointsToWin == IF state.currentPeriod = 5 THEN 15 ELSE 25
        minDiff == 2
        homeWins == homeSetScore >= pointsToWin /\ homeSetScore - awaySetScore >= minDiff
        awayWins == awaySetScore >= pointsToWin /\ awaySetScore - homeSetScore >= minDiff
    IN  homeWins \/ awayWins

shouldEndMatch(state) ==
    LET homeSets == Cardinality({i \in 0..(state.currentPeriod - 1) :
                        At(state.homePeriodScores, i) > At(state.awayPeriodScores, i)})
        awaySets == Cardinality({i \in 0..(state.currentPeriod - 1) :
                        At(state.awayPeriodScores, i) > At(state.homePeriodScores, i)})
    IN  IF homeSets >= 3 THEN [ended |-> TRUE, winnerId |-> "home"]
        ELSE IF awaySets >= 3 THEN [ended |-> TRUE, winnerId |-> "away"]
        ELSE [ended |-> FALSE, winnerId |-> NULL]

\* the scores <<home, away>> of the sets before the current one: sets that
\* ended under the rule, and a set the admin advanced past
PriorSets == {<<25, 20>>, <<20, 25>>, <<1, 0>>}
\* the scores one side has in the current set
SetScores == {0, 1, 13, 14, 15, 16, 20, 24, 25, 26}

\* the period array of side k (1 home, 2 away) of the sets q
RECURSIVE SideOf(_, _)
SideOf(q, k) == IF q = <<>> THEN <<>> ELSE <<q[1][k]>> \o SideOf(Tail(q), k)

\* the states of a LIVE volleyball match: the arrays reach the current set,
\* or end before it when no point of it was scored yet
VolleyballStates ==
    UNION {
        {[homeScore |-> SumSeq(SideOf(q, 1)), awayScore |-> SumSeq(SideOf(q, 2)),
          homePeriodScores |-> SideOf(q, 1), awayPeriodScores |-> SideOf(q, 2),
          currentPeriod |-> p, status |-> "LIVE"] :
            q \in {Append(prior, <<h, a>>) :
                       prior \in SeqsOfLen(PriorSets, p - 1),
                       h \in SetScores, a \in SetScores}
                   \cup SeqsOfLen(PriorSets, p - 1)} :
        p \in 1..5}

InitVolleyball ==
    /\ sport = "volleyball"
    /\ match = NewMatch
    /\ events = <<>>
    /\ response = NoResponse
    /\ emitted = <<>>
    /\ reqs = [r \in Reqs |-> Idle]
    /\ \E s \in VolleyballStates : calc = [fn |-> "none", state |-> s]

CallShouldEndPeriod ==
    /\ calc.fn = "none"
    /\ calc' = [fn |-> "shouldEndPeriod", state |-> calc.state,
                result |-> shouldEndPeriod(calc.state)]
    /\ UNCHANGED <<sport, match, events, response, emitted, reqs>>

CallShouldEndMatch ==
    /\ calc.fn = "none"
    /\ calc' = [fn |-> "shouldEndMatch", state |-> calc.state,
                result |-> shouldEndMatch(calc.state)]
    /\ UNCHANGED <<sport, match, events, response, emitted, reqs>>

NextVolleyball == CallShouldEndPeriod \/ CallShouldEndMatch

SpecVolleyball == InitVolleyball /\ [][NextVolleyball]_vars

----------------------------------------------------------------------------
\* The tournament format generators, one loop iteration per step

\* a team index that is null (TBD)
NullIndex == -2
\* the "bye" placeholder of generateRoundRobin
ByeIndex == -1

\* Array.from({ length: n }, (_, i) => i)
RECURSIVE Indices(_)
Indices(n) == IF n = 0 THEN <<>> ELSE Append(Indices(n - 1), n - 1)

RECURSIVE Pow2(_)
Pow2(k) == IF k = 0 THEN 1 ELSE 2 * Pow2(k - 1)

\* Math.ceil(Math.log2(n)) for n >= 1
RECURSIVE CeilLog2(_)
CeilLog2(n) == IF n <= 1 THEN 0 ELSE 1 + CeilLog2((n + 1) \div 2)

RECURSIVE Interleave(_, _)
Interleave(smaller, size) ==
    IF smaller = <<>> THEN <<>>
    ELSE <<smaller[1], size - 1 - smaller[1]>> \o Interleave(Tail(smaller), size)

\* a bracket order that keeps the seeds in index order
generateSeededBracket_InOrder(size) == Indices(size)

RECURSIVE generateSeededBracket(_)
generateSeededBracket(size) ==
    IF size = 1 THEN <<0>>
    ELSE IF size = 2 THEN <<0, 1>>
    ELSE Interleave(generateSeededBracket(size \div 2), size)

getStageForRound(round, totalRounds) ==
    LET roundsFromEnd == totalRounds - round
    IN  CASE roundsFromEnd = 0 -> "FINAL"
          [] roundsFromEnd = 1 -> "SEMIFINAL"
          [] roundsFromEnd = 2 -> "QUARTERFINAL"
          [] roundsFromEnd = 3 -> "ROUND_OF_16"
          [] OTHER -> "GROUP"

GeneratedMatch(home, away, round, matchNumber, stage) ==
    [homeTeamIndex |-> home, awayTeamIndex |-> away, round |-> round,
     matchNumber |-> matchNumber, stage |-> stage]

\* generateRoundRobin(teamCount) before its loops
RoundRobinStart(teamCount) ==
    [fn |-> "generateRoundRobin", pc |-> "loop", teamCount |-> teamCount,
     teamsWithBye |-> IF teamCount % 2 = 1
                      THEN Append(Indices(teamCount), ByeIndex)
                      ELSE Indices(teamCount),
     round |-> 0, match |-> 0, matches |-> <<>>, matchNumber |-> 1]

\* generateSingleElimination(teamCount) before its loops
SingleEliminationStart(teamCount) ==
    LET bracketSize == Pow2(CeilLog2(teamCount))
    IN  [fn |-> "generateSingleElimination", pc |-> "loop", teamCount |-> teamCount,
         bracketSize |-> bracketSize, rounds |-> CeilLog2(bracketSize),
         seededPositions |-> generateSeededBracket(bracketSize),
         round |-> 1, i |-> 0, matchesInPrevRound |-> bracketSize \div 2,
         matches |-> <<>>, matchNumber |-> 1]

\* the largest groupCount and advancingPerGroup of GenerateMatchesSchema
MaxGroupCount == 8
MaxAdvancingPerGroup == 4

TournamentFormats ==
    {"ROUND_ROBIN", "SINGLE_ELIMINATION", "DOUBLE_ELIMINATION", "GROUP_KNOCKOUT"}

\* `Group ${String.fromCharCode(65 + g)}`
GroupNames ==
    <<"Group A", "Group B", "Group C", "Group D",
      "Group E", "Group F", "Group G", "Group H">>

\* generateGroupKnockout(teamCount, groupCount, advancingPerGroup) before its
\* draft loop
GroupKnockoutStart(teamCount, groupCount, advancingPerGroup) ==
    [fn |-> "generateGroupKnockout", pc |-> "loop", teamCount |-> teamCount,
     groupCount |-> groupCount, advancingPerGroup |-> advancingPerGroup,
     groups |-> [g \in 1..groupCount |->
                    [name |-> GroupNames[g], teamIndices |-> <<>>]],
     direction |-> 1, groupIndex |-> 0, team |-> 0, g |-> 0,
     matches |-> <<>>, matchNumber |-> 1]

\* generateTournamentMatches(format, teamCount, options) up to the loops of the
\* generator it calls; it reads groupCount and advancingPerGroup of the
\* options and nothing else
generateTournamentMatches(format, teamCount, options) ==
    CASE format = "ROUND_ROBIN" -> RoundRobinStart(teamCount)
      [] format \in {"SINGLE_ELIMINATION", "DOUBLE_ELIMINATION"} ->
            SingleEliminationStart(teamCount)
      [] format = "GROUP_KNOCKOUT" ->
            GroupKnockoutStart(teamCount,
                IF "groupCount" \in DOMAIN options THEN options.groupCount
                ELSE Max(2, teamCount \div 4),
                IF "advancingPerGroup" \in DOMAIN options
                THEN options.advancingPerGroup ELSE 2)

\* the options a caller passes: the tests pass useSeeding, the
\* generate-matches route passes the group fields it was given
GenerateOptions(format) ==
    IF format = "GROUP_KNOCKOUT"
    THEN UNION {
           {[useSeeding |-> b]}
             \cup {[useSeeding |-> b, groupCount |-> k] : k \in 1..MaxGroupCount}
             \cup {[useSeeding |-> b, advancingPerGroup |-> a] :
                       a \in 1..MaxAdvancingPerGroup}
             \cup {[useSeeding |-> b, groupCount |-> k, advancingPerGroup |-> a] :
                       k \in 1..MaxGroupCount, a \in 1..MaxAdvancingPerGroup}
           : b \in BOOLEAN}
    ELSE {[useSeeding |-> b] : b \in BOOLEAN}

\* the pairings of round 1 of a match list, in order
FirstRoundPairings(ms) ==
    LET first == SelectSeq(ms, LAMBDA m : m.round = 1)
    IN  [k \in DOMAIN first |-> <<first[k].homeTeamIndex, first[k].awayTeamIndex>>]

\* a call of the generator by a caller that repeats it with the same
\* arguments and collects the round-1 pairings of the results
Generate(format, teamCount, options, trial, results) ==
    generateTournamentMatches(format, teamCount, options)
        @@ [format |-> format, options |-> options,
            trial |-> trial, results |-> results]

InitFormats ==
    /\ sport \in SportSlugs
    /\ match = NewMatch
    /\ events = <<>>
    /\ response = NoResponse
    /\ emitted = <<>>
    /\ reqs = [r \in Reqs |-> Idle]
    /\ \E format \in TournamentFormats, teamCount \in 2..MaxTeams :
           \E options \in GenerateOptions(format) :
               calc = Generate(format, teamCount, options, 1, {})

\* one pass of the inner loop of generateRoundRobin
RoundRobinMatch ==
    LET n == Len(calc.teamsWithBye)
        home == calc.teamsWithBye[calc.match + 1]
        away == calc.teamsWithBye[n - calc.match]
    IN  /\ calc.fn = "generateRoundRobin" /\ calc.pc = "loop"
        /\ calc.round < n - 1
        /\ calc.match < n \div 2
        /\ calc' = IF home # ByeIndex /\ away # ByeIndex
                   THEN [calc EXCEPT
                            !.matches = Append(@, GeneratedMatch(home, away,
                                calc.round + 1, calc.matchNumber, "GROUP")),
                            !.matchNumber = @ + 1,
                            !.match = @ + 1]
                   ELSE [calc EXCEPT !.match = @ + 1]
        /\ UNCHANGED <<sport, match, events, response, emitted, reqs>>

\* a rotation that moves nothing
RoundRobinRotate_KeepsOrder ==
    LET n == Len(calc.teamsWithBye)
    IN  /\ calc.fn = "generateRoundRobin" /\ calc.pc = "loop"
        /\ calc.round < n - 1
        /\ calc.match = n \div 2
        /\ calc' = [calc EXCEPT !.round = @ + 1, !.match = 0]
        /\ UNCHANGED <<sport, match, events, response, emitted, reqs>>

\* the end of a round of generateRoundRobin: pop the last team and insert it
\* after the first
RoundRobinRotate ==
    LET n == Len(calc.teamsWithBye)
        t == calc.teamsWithBye
    IN  /\ calc.fn = "generateRoundRobin" /\ calc.pc = "loop"
        /\ calc.round < n - 1
        /\ calc.match = n \div 2
        /\ calc' = [calc EXCEPT
               !.teamsWithBye = <<t[1], t[n]>> \o SubSeq(t, 2, n - 1),
               !.round = @ + 1,
               !.match = 0]
        /\ UNCHANGED <<sport, match, events, response, emitted, reqs>>

RoundRobinReturn ==
    /\ calc.fn = "generateRoundRobin" /\ calc.pc = "loop"
    /\ calc.round >= Len(calc.teamsWithBye) - 1
    /\ calc' = [calc EXCEPT !.pc = "done"]
    /\ UNCHANGED <<sport, match, events, response, emitted, reqs>>

\* a first-round loop that takes every bracket position for a team
SingleEliminationFirstRound_NoEmptySlots ==
    LET pos == calc.seededPositions
        pos1 == IF calc.i * 2 + 1 <= Len(pos) THEN pos[calc.i * 2 + 1] ELSE NullIndex
        pos2 == IF calc.i * 2 + 2 <= Len(pos) THEN pos[calc.i * 2 + 2] ELSE NullIndex
    IN  /\ calc.fn = "generateSingleElimination" /\ calc.pc = "loop"
        /\ calc.round = 1
        /\ calc.i * 2 < calc.bracketSize
        /\ calc' = [calc EXCEPT
               !.matches = Append(@, GeneratedMatch(pos1, pos2, 1, calc.matchNumber,
                                                    getStageForRound(1, calc.rounds))),
               !.matchNumber = @ + 1,
               !.i = @ + 1]
        /\ UNCHANGED <<sport, match, events, response, emitted, reqs>>

\* one pass of the first-round loop of generateSingleElimination
SingleEliminationFirstRound ==
    LET pos == calc.seededPositions
        Defined(j) == j <= Len(pos)
        team1 == IF Defined(calc.i * 2 + 1) /\ pos[calc.i * 2 + 1] < calc.teamCount
                 THEN pos[calc.i * 2 + 1] ELSE NullIndex
        team2 == IF Defined(calc.i * 2 + 2) /\ pos[calc.i * 2 + 2] < calc.teamCount
                 THEN pos[calc.i * 2 + 2] ELSE NullIndex
    IN  /\ calc.fn = "generateSingleElimination" /\ calc.pc = "loop"
        /\ calc.round = 1
        /\ calc.i * 2 < calc.bracketSize
        /\ calc' = [calc EXCEPT
               !.matches = Append(@, GeneratedMatch(team1, team2, 1, calc.matchNumber,
                                                    getStageForRound(1, calc.rounds))),
               !.matchNumber = @ + 1,
               !.i = @ + 1]
        /\ UNCHANGED <<sport, match, events, response, emitted, reqs>>

\* a later round that has as many matches as the round before
SingleEliminationNextRound_SameSize ==
    /\ calc.fn = "generateSingleElimination" /\ calc.pc = "loop"
    /\ IF calc.round = 1
       THEN /\ calc.i * 2 >= calc.bracketSize
            /\ calc' = [calc EXCEPT !.round = 2, !.i = 0,
                                     !.matchesInPrevRound = 2 * @]
       ELSE /\ calc.round <= calc.rounds
            /\ calc.i = calc.matchesInPrevRound \div 2
            /\ calc' = [calc EXCEPT !.round = @ + 1, !.i = 0]
    /\ UNCHANGED <<sport, match, events, response, emitted, reqs>>

\* the end of a round of generateSingleElimination; the first-round loop runs
\* whatever the number of rounds is
SingleEliminationNextRound ==
    /\ calc.fn = "generateSingleElimination" /\ calc.pc = "loop"
    /\ IF calc.round = 1
       THEN /\ calc.i * 2 >= calc.bracketSize
            /\ calc' = [calc EXCEPT !.round = 2, !.i = 0]
       ELSE /\ calc.round <= calc.rounds
            /\ calc.i = calc.matchesInPrevRound \div 2
            /\ calc' = [calc EXCEPT !.round = @ + 1, !.i = 0,
                                     !.matchesInPrevRound = @ \div 2]
    /\ UNCHANGED <<sport, match, events, response, emitted, reqs>>

\* one pass of the inner loop of the later rounds
SingleEliminationLaterRound ==
    /\ calc.fn = "generateSingleElimination" /\ calc.pc = "loop"
    /\ calc.round >= 2 /\ calc.round <= calc.rounds
    /\ calc.i < calc.matchesInPrevRound \div 2
    /\ calc' = [calc EXCEPT
           !.matches = Append(@, GeneratedMatch(NullIndex, NullIndex, calc.round,
                                  calc.matchNumber,
                                  getStageForRound(calc.round, calc.rounds))),
           !.matchNumber = @ + 1,
           !.i = @ + 1]
    /\ UNCHANGED <<sport, match, events, response, emitted, reqs>>

SingleEliminationReturn ==
    /\ calc.fn = "generateSingleElimination" /\ calc.pc = "loop"
    /\ calc.round >= 2 /\ calc.round > calc.rounds
    /\ calc' = [calc EXCEPT !.pc = "done"]
    /\ UNCHANGED <<sport, match, events, response, emitted, reqs>>

\* a draft that turns at the last group without stepping back into it
GroupKnockoutDraft_NoStepBack ==
    LET next == calc.groupIndex + calc.direction
        bounce == next >= calc.groupCount \/ next < 0
    IN  /\ calc.fn = "generateGroupKnockout" /\ calc.pc = "loop"
        /\ calc.team < calc.teamCount
        /\ calc' = [calc EXCEPT
               !.groups = IF calc.groupIndex + 1 \in DOMAIN @
                          THEN [@ EXCEPT ![calc.groupIndex + 1].teamIndices =
                                             Append(@, calc.team)]
                          ELSE @,
               !.direction = IF bounce THEN -@ ELSE @,
               !.groupIndex = next,
               !.team = @ + 1]
        /\ UNCHANGED <<sport, match, events, response, emitted, reqs>>

\* one pass of the snake draft of generateGroupKnockout
GroupKnockoutDraft ==
    LET next == calc.groupIndex + calc.direction
        bounce == next >= calc.groupCount \/ next < 0
    IN  /\ calc.fn = "generateGroupKnockout" /\ calc.pc = "loop"
        /\ calc.team < calc.teamCount
        /\ calc' = [calc EXCEPT
               !.groups = IF calc.groupIndex + 1 \in DOMAIN @
                          THEN [@ EXCEPT ![calc.groupIndex + 1].teamIndices =
                                             Append(@, calc.team)]
                          ELSE @,
               !.direction = IF bounce THEN -@ ELSE @,
               !.groupIndex = IF bounce THEN next - calc.direction ELSE next,
               !.team = @ + 1]
        /\ UNCHANGED <<sport, match, events, response, emitted, reqs>>

\* generateGroupKnockout calls generateRoundRobin for the next group
GroupKnockoutCallRoundRobin ==
    /\ calc.fn = "generateGroupKnockout" /\ calc.pc = "loop"
    /\ calc.team = calc.teamCount
    /\ calc.g < Len(calc.groups)
    /\ calc' = RoundRobinStart(Len(calc.groups[calc.g + 1].teamIndices))
                    @@ [caller |-> calc]
    /\ UNCHANGED <<sport, match, events, response, emitted, reqs>>

\* group matches that keep the round robin's own indices
GroupKnockoutGroupMatches_LocalIndices ==
    /\ calc.fn = "generateRoundRobin" /\ calc.pc = "done"
    /\ "caller" \in DOMAIN calc
    /\ LET c == calc.caller
           gm == calc.matches
           mapped == [j \in DOMAIN gm |->
                        GeneratedMatch(gm[j].homeTeamIndex, gm[j].awayTeamIndex,
                                       gm[j].round, c.matchNumber + j - 1, "GROUP")
                            @@ [groupIndex |-> c.g]]
       IN  calc' = [c EXCEPT !.matches = @ \o mapped,
                             !.matchNumber = @ + Len(gm),
                             !.g = @ + 1]
    /\ UNCHANGED <<sport, match, events, response, emitted, reqs>>

\* the matches of a group: the round robin of the group's size, on the
\* group's teams
GroupKnockoutGroupMatches ==
    /\ calc.fn = "generateRoundRobin" /\ calc.pc = "done"
    /\ "caller" \in DOMAIN calc
    /\ LET c == calc.caller
           groupTeams == c.groups[c.g + 1].teamIndices
           gm == calc.matches
           mapped == [j \in DOMAIN gm |->
                        GeneratedMatch(groupTeams[gm[j].homeTeamIndex + 1],
                                       groupTeams[gm[j].awayTeamIndex + 1],
                                       gm[j].round, c.matchNumber + j - 1, "GROUP")
                            @@ [groupIndex |-> c.g]]
       IN  calc' = [c EXCEPT !.matches = @ \o mapped,
                             !.matchNumber = @ + Len(gm),
                             !.g = @ + 1]
    /\ UNCHANGED <<sport, match, events, response, emitted, reqs>>

\* generateGroupKnockout calls generateSingleElimination for the knockout stage
GroupKnockoutCallSingleElimination ==
    /\ calc.fn = "generateGroupKnockout" /\ calc.pc = "loop"
    /\ calc.team = calc.teamCount
    /\ calc.g >= Len(calc.groups)
    /\ calc' = SingleEliminationStart(calc.groupCount * calc.advancingPerGroup)
                    @@ [caller |-> calc]
    /\ UNCHANGED <<sport, match, events, response, emitted, reqs>>

\* knockout matches that keep the bracket's own round numbers
GroupKnockoutReturn_KeepsRounds ==
    /\ calc.fn = "generateSingleElimination" /\ calc.pc = "done"
    /\ "caller" \in DOMAIN calc
    /\ LET c == calc.caller
           km == calc.matches
           mapped == [j \in DOMAIN km |->
                        [km[j] EXCEPT !.matchNumber = c.matchNumber + j - 1,
                                      !.homeTeamIndex = NullIndex,
                                      !.awayTeamIndex = NullIndex]]
       IN  calc' = [c EXCEPT !.matches = @ \o mapped,
                             !.matchNumber = @ + Len(km),
                             !.pc = "done"]
    /\ UNCHANGED <<sport, match, events, response, emitted, reqs>>

\* the knockout matches: the bracket's matches with both sides null, rounds
\* after the last group round, match numbers continued
GroupKnockoutReturn ==
    /\ calc.fn = "generateSingleElimination" /\ calc.pc = "done"
    /\ "caller" \in DOMAIN calc
    /\ LET c == calc.caller
           groupRounds == {c.matches[j].round : j \in DOMAIN c.matches} \cup {0}
           lastGroupRound == CHOOSE r \in groupRounds : \A q \in groupRounds : q <= r
           km == calc.matches
           mapped == [j \in DOMAIN km |->
                        [km[j] EXCEPT !.round = lastGroupRound + @,
                                      !.matchNumber = c.matchNumber + j - 1,
                                      !.homeTeamIndex = NullIndex,
                                      !.awayTeamIndex = NullIndex]]
       IN  calc' = [c EXCEPT !.matches = @ \o mapped,
                             !.matchNumber = @ + Len(km),
                             !.pc = "done"]
    /\ UNCHANGED <<sport, match, events, response, emitted, reqs>>

\* the caller calls the generator again with the same arguments
GenerateAgain ==
    /\ calc.pc = "done"
    /\ "caller" \notin DOMAIN calc
    /\ calc.trial < MaxTrials
    /\ calc' = Generate(calc.format, calc.teamCount, calc.options, calc.trial + 1,
                        calc.results \cup {FirstRoundPairings(calc.matches)})
    /\ UNCHANGED <<sport, match, events, response, emitted, reqs>>

NextFormats ==
    \/ RoundRobinMatch
    \/ RoundRobinRotate
    \/ RoundRobinReturn
    \/ SingleEliminationFirstRound
    \/ SingleEliminationNextRound
    \/ SingleEliminationLaterRound
    \/ SingleEliminationReturn
    \/ GroupKnockoutDraft
    \/ GroupKnockoutCallRoundRobin
    \/ GroupKnockoutGroupMatches
    \/ GroupKnockoutCallSingleElimination
    \/ GroupKnockoutReturn
    \/ GenerateAgain

SpecFormats == InitFormats /\ [][NextFormats]_vars

----------------------------------------------------------------------------
\* Properties

\* the points of the events of a side that are not undone
RECURSIVE SumPoints(_, _)
SumPoints(evs, side) ==
    IF evs = <<>> THEN 0
    ELSE (IF evs[1].teamSide = side /\ ~evs[1].undone THEN evs[1].points ELSE 0)
         + SumPoints(Tail(evs), side)

Emitted(name) == Len(emitted) = 1 /\ emitted[1].event = name

C2_TotalsMatchLog ==
    /\ match.homeScore = SumPoints(events, "HOME")
    /\ match.awayScore = SumPoints(events, "AWAY")

\* an event of 2 points that counts below an event that was undone
C2_Witness ==
    /\ Len(events) = 2
    /\ ~events[1].undone /\ events[1].points = 2
    /\ events[2].undone
    /\ Emitted("match_update")

\* the totals a request computes from the match it read
RequestTotals(req) ==
    LET side == IF req.teamSide = "HOME" THEN req.snap.homeScore ELSE req.snap.awayScore
        new  == IF req.op = "score" THEN side + req.points ELSE Max(0, side - req.points)
    IN  [homeScore |-> IF req.teamSide = "HOME" THEN new ELSE req.snap.homeScore,
         awayScore |-> IF req.teamSide = "AWAY" THEN new ELSE req.snap.awayScore]

\* r and q are a score and a score-or-undo request, r read the match before q
\* wrote it, q wrote before r, and nothing was written after r
Overwrites(r, q) ==
    /\ r # q
    /\ {reqs[r].op, reqs[q].op} \in {{"score"}, {"score", "undo"}}
    /\ Written(q) /\ Written(r)
    /\ reqs[q].wseq < reqs[r].wseq
    /\ q \notin reqs[r].before
    /\ \A p \in Writers : reqs[p].wseq <= reqs[r].wseq

\* C3: when two score requests, or a score and an undo request, both read the
\* match before either writes it, the stored totals are the ones the later
\* writer computed from what it read, without the earlier writer's change,
\* while the event of every score request of the two is in the log.
C3_LastWriteWins ==
    \A r, q \in Reqs :
        Overwrites(r, q) =>
            /\ match.homeScore = RequestTotals(reqs[r]).homeScore
            /\ match.awayScore = RequestTotals(reqs[r]).awayScore
            /\ \A x \in {r, q} :
                   reqs[x].op = "score" =>
                       /\ reqs[x].last \in DOMAIN events
                       /\ events[reqs[x].last].teamSide = reqs[x].teamSide
                       /\ events[reqs[x].last].points = reqs[x].points

\* two score requests overwrote one another: two events count in the log and
\* the totals hold the points of one
C3_Witness ==
    /\ \E r, q \in Reqs :
           Overwrites(r, q) /\ reqs[r].op = "score" /\ reqs[q].op = "score"
    /\ Len(events) = 2 /\ ~events[1].undone /\ ~events[2].undone
    /\ match.homeScore + match.awayScore
           < SumPoints(events, "HOME") + SumPoints(events, "AWAY")

\* the drop of a side's total and period bucket when event e is undone
UndoneExactly(e) ==
    LET homePts == IF e.teamSide = "HOME" THEN e.points ELSE 0
        awayPts == IF e.teamSide = "AWAY" THEN e.points ELSE 0
    IN  /\ match'.homeScore = match.homeScore - homePts
        /\ match'.awayScore = match.awayScore - awayPts
        /\ e.period \in DOMAIN match.homePeriodScores
        /\ e.period \in DOMAIN match.awayPeriodScores
        /\ match'.homePeriodScores =
               [match.homePeriodScores EXCEPT ![e.period] = @ - homePts]
        /\ match'.awayPeriodScores =
               [match.awayPeriodScores EXCEPT ![e.period] = @ - awayPts]

RejectedStep ==
    /\ response'.status = 400
    /\ response'.error # NULL
    /\ match' = match
    /\ events' = events
    /\ emitted' = <<>>

\* C5: a start when the status is neither SCHEDULED nor PAUSED, a pause when it
\* is not LIVE, a next-period when currentPeriod >= sport.periods and an undo
\* when no event counts answer with an error and leave the match, the log and
\* the notifications as they were.
C5_RejectedChangesNothing ==
    [][/\ (StartMatch /\ match.status \notin {"SCHEDULED", "PAUSED"}) => RejectedStep
       /\ (PauseMatch /\ match.status # "LIVE") => RejectedStep
       /\ (NextPeriod /\ match.currentPeriod >= SportRow(sport).periods) => RejectedStep
       /\ (UndoScore /\ \A i \in DOMAIN events : events[i].undone) => RejectedStep]_vars

\* an undo was refused on a match whose only event had been undone
C5_Witness ==
    /\ response = Error(400, "No score events to undo")
    /\ Len(events) = 1 /\ events[1].undone
    /\ emitted = <<>>

\* C6: a score request on a match that is not LIVE, or with a point value that
\* is not an increment of the sport, answers with an error and a reason,
\* applyScore returns the state it was given, and the match, the log and the
\* notifications stay as they were.
C6_InvalidScoreChangesNothing ==
    [][\A teamSide \in Sides, points \in 1..MaxPoints :
          (/\ AddScoreReq(teamSide, points)
           /\ ~(match.status = "LIVE" /\ points \in SportRow(sport).scoreIncrements))
          => /\ RejectedStep
             /\ applyScore(getSportHandler(SportRow(sport)), MatchState(match),
                           teamSide, points).newState = MatchState(match)]_vars

\* a LIVE match refused a point value
C6_Witness ==
    /\ match.status = "LIVE"
    /\ response = Error(400, "Invalid point value")
    /\ emitted = <<>>

\* C7: from COMPLETED, start, pause and next-period answer with an error and
\* change nothing; end succeeds from SCHEDULED, LIVE and PAUSED and sets
\* COMPLETED.
C7_CompletedRefusesAll ==
    [][/\ (match.status = "COMPLETED" /\ (StartMatch \/ PauseMatch \/ NextPeriod))
            => RejectedStep
       /\ (match.status \in {"SCHEDULED", "LIVE", "PAUSED"} /\ EndMatch)
            => (response' = Ok /\ match'.status = "COMPLETED")]_vars

\* C8: end records the home team when the home total is higher, the away team
\* when the away total is higher, and no winner when the totals are equal.
C8_EndRecordsWinner ==
    [][EndMatch =>
          /\ match.homeScore > match.awayScore => match'.winnerId = match.homeTeamId
          /\ match.awayScore > match.homeScore => match'.winnerId = match.awayTeamId
          /\ match.homeScore = match.awayScore => match'.winnerId = NULL]_vars

\* a match ended with the away side ahead
C8_Witness ==
    /\ Emitted("match_ended")
    /\ match.awayScore > match.homeScore /\ match.homeScore > 0
    /\ match.winnerId = AwayTeam

\* C9 as stated: only end writes winnerId, and a match that is not COMPLETED
\* has no winner.
C9_WinnerOnlyWhenCompleted ==
    /\ [][match'.winnerId # match.winnerId => EndMatch]_vars
    /\ [](match.status # "COMPLETED" => match.winnerId = NULL)

\* C9 amended: only end writes winnerId, and a match that was never ended
\* (endedAt null) has no winner.
C9_OnlyEndWritesWinner ==
    /\ [][match'.winnerId # match.winnerId => EndMatch]_vars
    /\ [](match.winnerId # NULL => match.endedAt # NoTime)

\* an ended match with a winner was put back to LIVE
C9_Witness ==
    /\ match.status = "LIVE"
    /\ match.winnerId = HomeTeam
    /\ response = Ok /\ emitted = <<>>

C11_EmitAfterWrite ==
    [][/\ \A r \in Reqs :
              (reqs[r].pc # "done" /\ reqs'[r].pc = "done" /\ response' = Ok) =>
                  /\ reqs[r].pc = "emit"
                  /\ Written(r)
                  /\ match' = match
                  /\ Len(emitted') = 1
                  /\ emitted'[1].room = "match"
       /\ \A r \in Reqs :
              (reqs'[r] # reqs[r] /\ reqs'[r].pc # "done") => emitted' = emitted
       /\ (reqs' = reqs /\ response' = Ok) =>
              (Len(emitted') = 1 /\ emitted'[1].room = "match")]_vars

\* an end request has emitted match_ended after its write, while another
\* request has read the match and not yet written it
C11_Witness ==
    \E r, q \in Reqs :
        /\ reqs[r].op = "end" /\ reqs[r].pc = "done" /\ Written(r)
        /\ Emitted("match_ended")
        /\ emitted[1].endedAt = match.endedAt
        /\ reqs[q].pc = "update" /\ ~Written(q)

\* C12: every start, pause, end, score, undo and next-period request that
\* answers with success also emits a tournament_match_update notification to
\* the tournament's room, carrying the resulting scores, period and status.
C12_TournamentFanOut ==
    [][(/\ response' = Ok
        /\ StartMatch \/ PauseMatch \/ EndMatch \/ AddScore \/ UndoScore \/ NextPeriod)
       => \E i \in DOMAIN emitted' :
              /\ emitted'[i].room = "tournament"
              /\ emitted'[i].event = "tournament_match_update"
              /\ emitted'[i].homeScore = match'.homeScore
              /\ emitted'[i].awayScore = match'.awayScore
              /\ emitted'[i].homePeriodScores = match'.homePeriodScores
              /\ emitted'[i].awayPeriodScores = match'.awayPeriodScores
              /\ emitted'[i].currentPeriod = match'.currentPeriod
              /\ emitted'[i].status = match'.status]_vars

\* C13: a delete request on a match whose status is not SCHEDULED is refused
\* with 'Only scheduled matches can be deleted', and the match and its score
\* events stay stored.
C13_DeleteOnlyScheduled ==
    [][(DeleteMatch /\ match.status # "SCHEDULED") =>
           /\ response' = Error(400, "Only scheduled matches can be deleted")
           /\ match' = match
           /\ events' = events]_vars

\* every call was undone
RoundTripDone == calc.fn = "undoScore" /\ calc.applied = <<>>

\* C14 as stated: after applyScore calls that succeed and undoScore calls with
\* the same arguments in reverse order the state equals the initial state,
\* totals and period arrays, also when the arrays were shorter than
\* currentPeriod.
C14_RoundTripExact ==
    RoundTripDone => calc.state = calc.initial

\* C14 amended: after the calls the totals, the period and the status are the
\* initial ones and each period array is the initial array, extended with
\* zeros to the length currentPeriod where it was shorter.
C14_RoundTripPadded ==
    RoundTripDone =>
        calc.state =
            [calc.initial EXCEPT
                !.homePeriodScores = ExtendTo(@, calc.initial.currentPeriod - 1),
                !.awayPeriodScores = ExtendTo(@, calc.initial.currentPeriod - 1)]

\* two calls of different sides applied and undone on a state whose arrays
\* ended before the current period
C14_Witness ==
    /\ RoundTripDone
    /\ calc.calls = 2
    /\ calc.initial.currentPeriod = 2
    /\ Len(calc.initial.homePeriodScores) = 1
    /\ calc.initial.homePeriodScores[1] = 1
    /\ Len(calc.state.homePeriodScores) = 2

\* C15 as stated: in every reachable state both period arrays are as long as
\* currentPeriod, and no step shortens either.
C15_ArraysMatchPeriod ==
    /\ [](/\ Len(match.homePeriodScores) = Len(match.awayPeriodScores)
          /\ Len(match.homePeriodScores) = match.currentPeriod)
    /\ [][/\ Len(match'.homePeriodScores) >= Len(match.homePeriodScores)
           /\ Len(match'.awayPeriodScores) >= Len(match.awayPeriodScores)]_vars

\* C15 amended: both period arrays have the same length, which is currentPeriod
\* or, until the first score of the current period is applied, one less; after
\* a score that succeeds it is currentPeriod, and no step shortens either array
\* (requests handled one at a time).
C15_ArraysTrackPeriod ==
    /\ [](/\ Len(match.homePeriodScores) = Len(match.awayPeriodScores)
          /\ Len(match.homePeriodScores) \in {match.currentPeriod - 1, match.currentPeriod})
    /\ [][/\ Len(match'.homePeriodScores) >= Len(match.homePeriodScores)
           /\ Len(match'.awayPeriodScores) >= Len(match.awayPeriodScores)
           /\ (AddScore /\ response' = Ok) =>
                  Len(match'.homePeriodScores) = match'.currentPeriod]_vars

\* the period was advanced on a match that had no score yet: one bucket in
\* period 2
C15_Witness ==
    /\ Emitted("period_changed")
    /\ match.currentPeriod = 2
    /\ match.homePeriodScores = <<0>>
    /\ match.awayPeriodScores = <<0>>

\* C16: a next-period request succeeds only while currentPeriod < sport.periods
\* and then adds one to currentPeriod and appends a zero to both period arrays,
\* as the handler's nextPeriod does; 1 <= currentPeriod <= sport.periods in
\* every reachable state; nextPeriod returns its input when currentPeriod is
\* the configured number of periods.
C16_NextPeriodBounded ==
    /\ [](/\ 1 <= match.currentPeriod
          /\ match.currentPeriod <= SportRow(sport).periods)
    /\ [](match.currentPeriod = getSportHandler(SportRow(sport)).periods =>
              nextPeriod(getSportHandler(SportRow(sport)), MatchState(match))
                  = MatchState(match))
    /\ [][NextPeriod =>
              IF match.currentPeriod < SportRow(sport).periods
              THEN /\ response' = Ok
                   /\ match'.currentPeriod = match.currentPeriod + 1
                   /\ match'.homePeriodScores = Append(match.homePeriodScores, 0)
                   /\ match'.awayPeriodScores = Append(match.awayPeriodScores, 0)
                   /\ MatchState(match') =
                          nextPeriod(getSportHandler(SportRow(sport)), MatchState(match))
              ELSE RejectedStep]_vars

\* a next-period request was refused in the last period of the sport, after a
\* score in that period
C16_Witness ==
    /\ match.currentPeriod = SportRow(sport).periods
    /\ response = Error(400, "Already at final period")
    /\ Len(match.homePeriodScores) = match.currentPeriod
    /\ match.homeScore > 0

\* the set with 0-based index i has ended under the period-end rule
SetEnded(state, i) ==
    LET h == At(state.homePeriodScores, i)
        a == At(state.awayPeriodScores, i)
        target == IF i + 1 = 5 THEN 15 ELSE 25
    IN  \/ h >= target /\ h - a >= 2
        \/ a >= target /\ a - h >= 2

\* the sets that have ended and that the home side (k = 1) or the away side
\* (k = 2) has won
SetsWon(state, k) ==
    Cardinality({i \in 0..(state.currentPeriod - 1) :
        /\ SetEnded(state, i)
        /\ IF k = 1
           THEN At(state.homePeriodScores, i) > At(state.awayPeriodScores, i)
           ELSE At(state.awayPeriodScores, i) > At(state.homePeriodScores, i)})

\* C17: the volleyball shouldEndMatch reports ended with the winner exactly
\* when one side has won at least 3 sets, a set counting as won only once it
\* has ended under the period-end rule.
C17_MatchEndsOnWonSets ==
    calc.fn = "shouldEndMatch" =>
        /\ calc.result.ended <=>
               (SetsWon(calc.state, 1) >= 3 \/ SetsWon(calc.state, 2) >= 3)
        /\ calc.result.ended =>
               calc.result.winnerId =
                   (IF SetsWon(calc.state, 1) >= 3 THEN "home" ELSE "away")

\* C18: the volleyball shouldEndPeriod is true exactly when one side's score
\* in the current set is at least the target (25 in sets 1 to 4, 15 in set 5)
\* and at least 2 above the other side's; 25-20 in set 1 ends the set, 25-24
\* and 24-20 do not.
C18_PeriodEndsOnTargetAndMargin ==
    calc.fn = "shouldEndPeriod" =>
        LET p == calc.state.currentPeriod
            h == At(calc.state.homePeriodScores, p - 1)
            a == At(calc.state.awayPeriodScores, p - 1)
            target == IF p = 5 THEN 15 ELSE 25
        IN  /\ calc.result <=> \/ h >= target /\ h >= a + 2
                               \/ a >= target /\ a >= h + 2
            /\ (p = 1 /\ h = 25 /\ a = 20) => calc.result
            /\ (p = 1 /\ h = 25 /\ a = 24) => ~calc.result
            /\ (p = 1 /\ h = 24 /\ a = 20) => ~calc.result

\* the fifth set ended at 15-13
C18_Witness ==
    /\ calc.fn = "shouldEndPeriod"
    /\ calc.state.currentPeriod = 5
    /\ At(calc.state.homePeriodScores, 4) = 13
    /\ At(calc.state.awayPeriodScores, 4) = 15
    /\ calc.result

\* the result a generator returned to the caller of generateTournamentMatches
Returned(fn) == calc.fn = fn /\ calc.pc = "done" /\ "caller" \notin DOMAIN calc

\* C19: generateRoundRobin(n) yields n(n-1)/2 matches, every unordered pair of
\* distinct indices of 0..n-1 in exactly one of them, no team twice in one
\* round, and the rounds numbered 1..n-1 for even n and 1..n for odd n.
C19_RoundRobinPairsOnce ==
    Returned("generateRoundRobin") =>
        LET n == calc.teamCount
            ms == calc.matches
        IN  /\ Len(ms) = (n * (n - 1)) \div 2
            /\ \A a, b \in 0..(n - 1) :
                   a < b =>
                       Cardinality({k \in DOMAIN ms :
                           {ms[k].homeTeamIndex, ms[k].awayTeamIndex} = {a, b}}) = 1
            /\ \A k, l \in DOMAIN ms :
                   (k # l /\ ms[k].round = ms[l].round) =>
                       {ms[k].homeTeamIndex, ms[k].awayTeamIndex}
                           \cap {ms[l].homeTeamIndex, ms[l].awayTeamIndex} = {}
            /\ {ms[k].round : k \in DOMAIN ms} =
                   1..(IF n % 2 = 0 THEN n - 1 ELSE n)

\* the ten matches of five teams, in five rounds
C19_Witness ==
    /\ Returned("generateRoundRobin")
    /\ calc.teamCount = 5
    /\ Len(calc.matches) = 10
    /\ calc.matches[10].round = 5

\* C20: generateSingleElimination(n) yields B - 1 matches for the smallest
\* power of two B >= n: B/2 in round 1, half as many in each later round, one
\* in the last round, of stage FINAL; the matches of round 2 and later have
\* both sides null, and no match of round 1 has.
C20_SingleEliminationShape ==
    Returned("generateSingleElimination") =>
        LET n == calc.teamCount
            ms == calc.matches
            B == CHOOSE b \in {Pow2(k) : k \in 0..n} :
                     b >= n /\ \A c \in {Pow2(k) : k \in 0..n} : c >= n => b <= c
            InRound(r) == {k \in DOMAIN ms : ms[k].round = r}
            last == CHOOSE r \in 1..n : Pow2(r) = B
        IN  /\ Len(ms) = B - 1
            /\ Cardinality(InRound(1)) = B \div 2
            /\ \A r \in 2..last :
                   2 * Cardinality(InRound(r)) = Cardinality(InRound(r - 1))
            /\ \A k \in DOMAIN ms : ms[k].round \in 1..last
            /\ Cardinality(InRound(last)) = 1
            /\ \A k \in InRound(last) : ms[k].stage = "FINAL"
            /\ \A k \in DOMAIN ms :
                   IF ms[k].round >= 2
                   THEN ms[k].homeTeamIndex = NullIndex /\ ms[k].awayTeamIndex = NullIndex
                   ELSE ms[k].homeTeamIndex # NullIndex \/ ms[k].awayTeamIndex # NullIndex

\* a bracket of five teams: eight slots, seven matches, three of them with one
\* side null
C20_Witness ==
    /\ Returned("generateSingleElimination")
    /\ calc.teamCount = 5
    /\ Len(calc.matches) = 7
    /\ Cardinality({k \in DOMAIN calc.matches :
           calc.matches[k].round = 1 /\ calc.matches[k].awayTeamIndex = NullIndex}) = 3

\* C21: in the seeded round-1 order of a bracket of size B >= 4, the match at
\* place i pairs the positions s and B-1-s (a position that is no team shows as
\* null), and the seed indices 0 and 1 are in opposite halves of the round-1
\* match list.
C21_SeededPairsAndHalves ==
    (Returned("generateSingleElimination") /\ calc.bracketSize >= 4) =>
        LET B == calc.bracketSize
            n == calc.teamCount
            ms == calc.matches
            pos == calc.seededPositions
            Team(p) == IF p < n THEN p ELSE NullIndex
            MatchOf(t) == CHOOSE k \in 1..(B \div 2) :
                              t \in {ms[k].homeTeamIndex, ms[k].awayTeamIndex}
        IN  /\ \A k \in 1..(B \div 2) :
                   /\ ms[k].round = 1
                   /\ pos[2 * k - 1] + pos[2 * k] = B - 1
                   /\ ms[k].homeTeamIndex = Team(pos[2 * k - 1])
                   /\ ms[k].awayTeamIndex = Team(pos[2 * k])
            /\ \E k \in 1..(B \div 2) : 0 \in {ms[k].homeTeamIndex, ms[k].awayTeamIndex}
            /\ \E k \in 1..(B \div 2) : 1 \in {ms[k].homeTeamIndex, ms[k].awayTeamIndex}
            /\ (MatchOf(0) <= B \div 4) # (MatchOf(1) <= B \div 4)

\* eight teams: 0 meets 7 in the first match, 1 meets 6 in the third
C21_Witness ==
    /\ Returned("generateSingleElimination")
    /\ calc.teamCount = 8
    /\ calc.matches[1].homeTeamIndex = 0 /\ calc.matches[1].awayTeamIndex = 7
    /\ calc.matches[3].homeTeamIndex = 1 /\ calc.matches[3].awayTeamIndex = 6

\* m.isBye === true, as the callers of the generators read it
isBye(m) == "isBye" \in DOMAIN m /\ m.isBye = TRUE

\* a round-1 match with one team and one empty slot
OneSided(m) ==
    /\ m.round = 1
    /\ (m.homeTeamIndex = NullIndex) # (m.awayTeamIndex = NullIndex)

\* the teams of the one-sided matches of a match list
OneSidedTeams(ms) ==
    UNION {{ms[k].homeTeamIndex, ms[k].awayTeamIndex} \ {NullIndex} :
              k \in {j \in DOMAIN ms : OneSided(ms[j])}}

\* C22: in the result of generateSingleElimination(n) a match carries
\* isBye = true exactly when it is a round-1 match with one team and one empty
\* slot; there are B-n such matches and their teams are the seed indices
\* 0..B-n-1.
C22_ByeFlagOnOneSidedMatches ==
    Returned("generateSingleElimination") =>
        LET B == calc.bracketSize
            n == calc.teamCount
            ms == calc.matches
        IN  /\ \A k \in DOMAIN ms : isBye(ms[k]) <=> OneSided(ms[k])
            /\ Cardinality({k \in DOMAIN ms : isBye(ms[k])}) = B - n
            /\ {t \in 0..(B - 1) : \E k \in DOMAIN ms :
                    isBye(ms[k]) /\ t \in {ms[k].homeTeamIndex, ms[k].awayTeamIndex}}
                   = 0..(B - n - 1)

\* C23, as stated: generateSingleElimination(8) yields 7 matches and no bye;
\* generateSingleElimination(5) yields 3 byes, each on seed index 0 or 1;
\* generateSingleElimination(6) yields 2 byes, on seed indices 0 and 1. A bye
\* is counted as a round-1 match with one team and one empty slot.
C23_ByesOnTopTwoSeeds ==
    Returned("generateSingleElimination") =>
        LET n == calc.teamCount
            ms == calc.matches
            byes == {k \in DOMAIN ms : OneSided(ms[k])}
        IN  /\ n = 8 => Len(ms) = 7 /\ byes = {}
            /\ n = 5 => Cardinality(byes) = 3 /\ OneSidedTeams(ms) \subseteq {0, 1}
            /\ n = 6 => Cardinality(byes) = 2 /\ OneSidedTeams(ms) = {0, 1}

\* C23, amended: the three byes of five teams are on seed indices 0, 1 and 2.
C23_ByesOnLowestSeeds ==
    Returned("generateSingleElimination") =>
        LET n == calc.teamCount
            ms == calc.matches
            byes == {k \in DOMAIN ms : OneSided(ms[k])}
        IN  /\ n = 8 => Len(ms) = 7 /\ byes = {}
            /\ n = 5 => Cardinality(byes) = 3 /\ OneSidedTeams(ms) = {0, 1, 2}
            /\ n = 6 => Cardinality(byes) = 2 /\ OneSidedTeams(ms) = {0, 1}

\* five teams: the second match of round 1 is 3 against 4, the other three
\* have one team each
C23_Witness ==
    /\ Returned("generateSingleElimination")
    /\ calc.teamCount = 5
    /\ OneSidedTeams(calc.matches) = {0, 1, 2}
    /\ ~OneSided(calc.matches[2])

\* the members of group g (0-based) of a generateGroupKnockout result
Members(g) ==
    {calc.groups[g + 1].teamIndices[j] : j \in DOMAIN calc.groups[g + 1].teamIndices}

\* C24: generateGroupKnockout(n, k, a) puts every team index of 0..n-1 in
\* exactly one of the k groups, the sizes of two groups differ by at most 1,
\* and for k >= 2 the seed indices 0 and 1 are in different groups.
C24_GroupsPartitionTeams ==
    Returned("generateGroupKnockout") =>
        LET n == calc.teamCount
            k == calc.groupCount
            Size(g) == Len(calc.groups[g + 1].teamIndices)
        IN  /\ Len(calc.groups) = k
            /\ \A t \in 0..(n - 1) :
                   Cardinality({g \in 0..(k - 1) : t \in Members(g)}) = 1
            /\ \A g \in 0..(k - 1) :
                   /\ Members(g) \subseteq 0..(n - 1)
                   /\ Cardinality(Members(g)) = Size(g)
            /\ \A g, h \in 0..(k - 1) : Size(g) - Size(h) <= 1
            /\ k >= 2 => ~\E g \in 0..(k - 1) : {0, 1} \subseteq Members(g)

\* eight teams in three groups: the draft turns at the third group and at the
\* first
C24_Witness ==
    /\ Returned("generateGroupKnockout")
    /\ calc.teamCount = 8 /\ calc.groupCount = 3
    /\ calc.groups[1].teamIndices = <<0, 5, 6>>
    /\ calc.groups[2].teamIndices = <<1, 4, 7>>
    /\ calc.groups[3].teamIndices = <<2, 3>>

\* the places of the matches of a generateGroupKnockout result whose stage is
\* not GROUP
NotGroupStage == {j \in DOMAIN calc.matches : calc.matches[j].stage # "GROUP"}

\* the smallest power of two >= n
BracketSizeOf(n) ==
    CHOOSE b \in n..(2 * n) :
        /\ \E e \in 0..n : Pow2(e) = b
        /\ \A c \in n..(b - 1) : ~\E e \in 0..n : Pow2(e) = c

\* the knockout matches at the places J: both sides null, rounds after every
\* GROUP-stage round
KnockoutShape(J) ==
    LET ms == calc.matches
    IN  \A j \in J :
            /\ ms[j].homeTeamIndex = NullIndex /\ ms[j].awayTeamIndex = NullIndex
            /\ \A i \in DOMAIN ms : ms[i].stage = "GROUP" => ms[j].round > ms[i].round

\* C25, as stated: for every k in 1..8 and a in 1..4 the matches of
\* generateGroupKnockout(n, k, a) whose stage is not GROUP are the knockout
\* bracket: B-1 of them for the smallest power of two B >= k*a, all with both
\* sides null and a round greater than every group-stage round.
C25_KnockoutIsNotGroupStage ==
    Returned("generateGroupKnockout") =>
        LET B == BracketSizeOf(calc.groupCount * calc.advancingPerGroup)
        IN  /\ Cardinality(NotGroupStage) = B - 1
            /\ KnockoutShape(NotGroupStage)

\* C25, amended: this holds when 2 <= k*a <= 16. For k*a > 16 (B = 32) the
\* 16 matches of the first knockout round have stage GROUP and no group tag,
\* and the matches whose stage is not GROUP are the other B/2-1 matches of the
\* bracket; for k*a = 1 the bracket is one match of stage GROUP without a
\* group tag, and no match has another stage.
C25_KnockoutUpToSixteen ==
    Returned("generateGroupKnockout") =>
        LET ka == calc.groupCount * calc.advancingPerGroup
            B == BracketSizeOf(ka)
            ms == calc.matches
            untagged == Cardinality({j \in DOMAIN ms :
                            ms[j].stage = "GROUP" /\ "groupIndex" \notin DOMAIN ms[j]})
        IN  /\ KnockoutShape(NotGroupStage)
            /\ \A j \in NotGroupStage : "groupIndex" \notin DOMAIN ms[j]
            /\ (2 <= ka /\ ka <= 16) =>
                   Cardinality(NotGroupStage) = B - 1 /\ untagged = 0
            /\ ka > 16 => Cardinality(NotGroupStage) = B \div 2 - 1
                             /\ untagged = B \div 2
            /\ ka = 1 => NotGroupStage = {} /\ untagged = 1

\* two groups, two advancing: a semifinal pair and a final after the three
\* group rounds of eight teams
C25_Witness ==
    /\ Returned("generateGroupKnockout")
    /\ calc.teamCount = 8 /\ calc.groupCount = 2 /\ calc.advancingPerGroup = 2
    /\ Len(calc.matches) = 15
    /\ NotGroupStage = {13, 14, 15}
    /\ calc.matches[13].round = 4 /\ calc.matches[15].round = 5
    /\ calc.matches[15].stage = "FINAL"

\* C30: in the result of generateGroupKnockout the GROUP-stage matches tagged
\* with group g are a complete round robin of that group: both sides are
\* members of g, every unordered pair of members meets exactly once
\* (s(s-1)/2 matches for s members), and the match numbers of the whole
\* result are 1..M without repeat or gap.
C30_GroupsPlayRoundRobin ==
    Returned("generateGroupKnockout") =>
        LET ms == calc.matches
            Of(g) == {j \in DOMAIN ms :
                         /\ ms[j].stage = "GROUP"
                         /\ "groupIndex" \in DOMAIN ms[j]
                         /\ ms[j].groupIndex = g}
        IN  /\ \A g \in 0..(calc.groupCount - 1) :
                   LET s == Cardinality(Members(g))
                   IN  /\ \A j \in Of(g) :
                              /\ ms[j].homeTeamIndex \in Members(g)
                              /\ ms[j].awayTeamIndex \in Members(g)
                       /\ \A a, b \in Members(g) :
                              a < b =>
                                  Cardinality({j \in Of(g) :
                                      {ms[j].homeTeamIndex, ms[j].awayTeamIndex}
                                          = {a, b}}) = 1
                       /\ 2 * Cardinality(Of(g)) = s * (s - 1)
            /\ \A j \in DOMAIN ms :
                   "groupIndex" \in DOMAIN ms[j] =>
                       ms[j].groupIndex \in 0..(calc.groupCount - 1)
            /\ \A j \in DOMAIN ms : ms[j].matchNumber = j

\* seven teams in two groups: three matches of group A (0, 3, 4), then six of
\* group B (1, 2, 5, 6)
C30_Witness ==
    /\ Returned("generateGroupKnockout")
    /\ calc.teamCount = 7 /\ calc.groupCount = 2
    /\ Members(0) = {0, 3, 4} /\ Members(1) = {1, 2, 5, 6}
    /\ calc.matches[3].groupIndex = 0
    /\ calc.matches[4].groupIndex = 1
    /\ calc.matches[9].groupIndex = 1
    /\ calc.matches[10].stage # "GROUP"

\* C26: bracket generation is deterministic when seeding is on (the calls with
\* the same format, team count and options and useSeeding = true return the
\* same round-1 pairings), and with useSeeding = false repeated calls with the
\* same inputs return more than one distinct round-1 pairing.
C26_SeedingDecidesDeterminism ==
    (Returned("generateSingleElimination") /\ calc.trial = MaxTrials) =>
        LET pairings == calc.results \cup {FirstRoundPairings(calc.matches)}
        IN  IF calc.options.useSeeding
            THEN Cardinality(pairings) = 1
            ELSE Cardinality(pairings) > 1

\* the fields a completed match is said to keep
Result(m) ==
    <<m.homeScore, m.awayScore, m.homePeriodScores, m.awayPeriodScores,
      m.currentPeriod, m.winnerId, m.endedAt>>

\* C27: once a match is COMPLETED, its totals, period-score arrays,
\* currentPeriod, winnerId and end time are not changed by any score, undo,
\* next-period, end or start request, and the recorded winner agrees with the
\* stored totals (higher total wins, equal totals give no winner).
C27_CompletedIsFrozen ==
    /\ [][(match.status = "COMPLETED"
             /\ (AddScore \/ UndoScore \/ NextPeriod \/ EndMatch \/ StartMatch))
           => Result(match') = Result(match)]_vars
    /\ [](match.status = "COMPLETED" => match.winnerId = DetermineWinner(match))

\* requests q and r, each a score, an undo or a next-period, were not handled
\* one at a time: r read the match when q, which arrived before it and was not
\* refused, had not yet written it
Interleaved(r, q) ==
    /\ q < r
    /\ reqs[r].pc # "idle"
    /\ {reqs[r].op, reqs[q].op} \subseteq {"score", "undo", "next"}
    /\ q \notin reqs[r].before
    /\ ~(reqs[q].pc = "done" /\ ~Written(q))

\* each side's total is the sum of its period scores
TotalsAreBucketSums ==
    /\ match.homeScore = SumSeq(match.homePeriodScores)
    /\ match.awayScore = SumSeq(match.awayPeriodScores)

\* C28: as long as the score, undo and next-period requests on a match that
\* began at 0-0 with empty period arrays are handled one at a time, each
\* side's total is the sum of its period-score array.  (That an undo and a
\* next-period that interleave between read and write break the equality is
\* the state C28_Witness.)
C28_SequentialTotalsAreBucketSums ==
    (\A r, q \in Reqs : ~Interleaved(r, q)) => TotalsAreBucketSums

\* an undo and a next-period request read the same match; the later writer of
\* the two wrote from what it read, and the total differs from the sum of the
\* period scores
C28_Witness ==
    /\ \E r, q \in Reqs :
           /\ Interleaved(r, q)
           /\ {reqs[r].op, reqs[q].op} = {"undo", "next"}
           /\ reqs[r].pc = "done" /\ reqs[q].pc = "done"
    /\ ~TotalsAreBucketSums

\* no total and no period score of a state is negative
NonNegative(state) ==
    /\ state.homeScore >= 0 /\ state.awayScore >= 0
    /\ \A i \in DOMAIN state.homePeriodScores : state.homePeriodScores[i] >= 0
    /\ \A i \in DOMAIN state.awayPeriodScores : state.awayPeriodScores[i] >= 0

\* C29: undoScore returns no negative total or period score, whatever side,
\* points and period it is given; and when requests are handled one at a time
\* and undo takes the most recent event that is not undone, the side's total
\* and the event's period score are both at least the event's points, so the
\* clamp at zero does not take effect.
C29_UndoNeverBelowZero ==
    /\ [](\A teamSide \in Sides, points \in 0..(MaxPoints + 1),
              period \in 1..(MaxPeriod + 1) :
                NonNegative(undoScore(MatchState(match), teamSide, points, period)))
    /\ [][(UndoScore /\ response' = Ok) =>
              LET e == events[LastEventIndex(events)]
                  total == IF e.teamSide = "HOME" THEN match.homeScore
                           ELSE match.awayScore
                  buckets == IF e.teamSide = "HOME" THEN match.homePeriodScores
                             ELSE match.awayPeriodScores
              IN  /\ total >= e.points
                  /\ e.period \in DOMAIN buckets
                  /\ buckets[e.period] >= e.points]_vars

\* the second of two away events was undone: the total is the points of the
\* first
C29_Witness ==
    /\ Len(events) = 2
    /\ events[1].teamSide = "AWAY" /\ events[2].teamSide = "AWAY"
    /\ ~events[1].undone /\ events[2].undone
    /\ match.awayScore = events[1].points
    /\ match.awayScore > 0
    /\ response = Ok
    /\ Emitted("match_update")
====
